---- MODULE Spec2Model ----
(***************************************************************************)
(* Model of the HTTP service of src/src/main.rs and src/src/handlers:      *)
(* seven POST endpoints, each decoding its request, calling one primitive  *)
(* of the ledger SDK and wrapping the result in a JSON envelope.           *)
(*                                                                         *)
(* Bytes are digits 0..ByteRadix-1 and texts are sequences of symbol       *)
(* codes, so that the base-58 and base-64 conversions are computed, with   *)
(* their failure cases, instead of being assumed.  Key and integer widths  *)
(* are scaled down (KeyLen for 32, U64Len for 8).                          *)
(***************************************************************************)
EXTENDS Integers, Sequences, FiniteSets, TLC

\* ------------------------------------------------------------------ bounds
ByteRadix == 16
B58Radix == 7
KeyLen == 2
U64Len == 1
MaxMsgLen == 2
MaxMsgByte == 1
MaxConn == 2

\* ------------------------------------------------------------------- state
\* answered:  the exchanges (request, response, primitive invoked) observed
\* conn:      per connection, the request accepted and not yet answered
\* listening: the listener bound by main is serving
VARIABLES answered, conn, listening
vars == <<answered, conn, listening>>

\* ------------------------------------------------------------------ requests
\* a request as it arrives on a connection: the route and the body (for
\* /keypair, the query parameters)
Arrival(ep, body) == <<ep, body>>
NoData == [none |-> TRUE]
\* a body that is the JSON value of the expected shape, or is not
WellFormed(req) == [kind |-> "json", val |-> req]
Malformed(kind) == [kind |-> kind, val |-> NoData]
\* the query string of /keypair, a set of <<key, value>> pairs
Query(params) == [kind |-> "query", val |-> [params |-> params]]

\* ------------------------------------------------------- sequences of bytes
Bytes == 0..(ByteRadix - 1)

RECURSIVE Pow(_, _)
Pow(b, n) == IF n = 0 THEN 1 ELSE b * Pow(b, n - 1)

Repeat(x, n) == [i \in 1..n |-> x]

\* big-endian value of a digit sequence in the given radix
RECURSIVE BEValue(_, _)
BEValue(s, radix) ==
    IF s = <<>> THEN 0
    ELSE BEValue(SubSeq(s, 1, Len(s) - 1), radix) * radix + s[Len(s)]

\* minimal big-endian digits of v (the empty sequence for 0)
RECURSIVE BEDigits(_, _)
BEDigits(v, radix) ==
    IF v = 0 THEN <<>>
    ELSE Append(BEDigits(v \div radix, radix), v % radix)

\* little-endian value and fixed-width little-endian bytes (to_le_bytes)
RECURSIVE LEValue(_)
LEValue(s) ==
    IF s = <<>> THEN 0 ELSE s[1] + ByteRadix * LEValue(Tail(s))

RECURSIVE ToLE(_, _)
ToLE(v, len) ==
    IF len = 0 THEN <<>>
    ELSE <<v % ByteRadix>> \o ToLE(v \div ByteRadix, len - 1)

RECURSIVE LeadingZeros(_)
LeadingZeros(s) ==
    IF s = <<>> \/ s[1] # 0 THEN 0 ELSE 1 + LeadingZeros(Tail(s))

Some(v) == [ok |-> TRUE, val |-> v]
None == [ok |-> FALSE, val |-> <<>>]

\* ------------------------------------------------------------------ base 58
\* bs58::encode: one zero symbol per leading zero byte, then the rest of the
\* bytes as a big-endian number written in the alphabet's radix.
Base58Encode(bytes) ==
    LET z == LeadingZeros(bytes)
    IN  Repeat(0, z) \o BEDigits(BEValue(SubSeq(bytes, z + 1, Len(bytes)), ByteRadix), B58Radix)

\* bs58::decode: a symbol outside the alphabet is an error; otherwise the
\* inverse conversion, one zero byte per leading zero symbol.
Base58Decode(text) ==
    IF \E i \in 1..Len(text) : text[i] \notin 0..(B58Radix - 1) THEN None
    ELSE LET z == LeadingZeros(text)
         IN  Some(Repeat(0, z) \o BEDigits(BEValue(SubSeq(text, z + 1, Len(text)), B58Radix), ByteRadix))

\* ------------------------------------------------------------------ base 64
\* A fixed-width block code: base64 writes 3 bytes as 4 symbols, the model
\* writes 1 byte as 2 symbols of radix B64Radix, the least radix whose
\* square covers a byte.
B64Radix == CHOOSE c \in 1..ByteRadix : c * c >= ByteRadix /\ (c - 1) * (c - 1) < ByteRadix

RECURSIVE Base64Encode(_)
Base64Encode(bytes) ==
    IF bytes = <<>> THEN <<>>
    ELSE <<bytes[1] \div B64Radix, bytes[1] % B64Radix>> \o Base64Encode(Tail(bytes))

\* base64::decode: errors on a symbol outside the alphabet, on a length that
\* is no whole number of blocks, and on a block that encodes no byte.
Base64Decode(text) ==
    IF \E i \in 1..Len(text) : text[i] \notin 0..(B64Radix - 1) THEN None
    ELSE IF Len(text) % 2 # 0 THEN None
    ELSE LET bytes == [i \in 1..(Len(text) \div 2) |-> text[2 * i - 1] * B64Radix + text[2 * i]]
         IN  IF \E i \in 1..Len(bytes) : bytes[i] >= ByteRadix THEN None ELSE Some(bytes)

\* ------------------------------------------------------------------ Pubkey
\* Pubkey::to_string and Pubkey::from_str (longest accepted text: the
\* encoding of the all-ones key; then base-58 decoding; then the size check).
MAX_BASE58_LEN == Len(Base58Encode(Repeat(ByteRadix - 1, KeyLen)))

PubkeyToString(bytes) == Base58Encode(bytes)

PubkeyFromStr(s) ==
    IF Len(s) > MAX_BASE58_LEN THEN None
    ELSE LET d == Base58Decode(s)
         IN  IF ~d.ok THEN None
             ELSE IF Len(d.val) # KeyLen THEN None
             ELSE Some(d.val)

\* ------------------------------------------------------------------ ed25519
\* The signature scheme is the SDK's; it is modelled by its ideal behaviour:
\* a secret determines a scalar and a public point, signing is a function of
\* (scalar, public key, message), and verification accepts exactly the
\* signature that signing produces.  Byte strings keep the two structural
\* facts the handlers can observe: not every KeyLen-byte string is a point,
\* and a signature's last byte has its high part clear.
KeySpace == Pow(ByteRadix, KeyLen)
HighLimit == (ByteRadix + 1) \div 2
ScalarCount == HighLimit * Pow(ByteRadix, KeyLen - 1)

SecretScalar(secret) == LEValue([secret EXCEPT ![KeyLen] = @ % HighLimit])
PublicOf(secret) == ToLE(KeySpace - 1 - SecretScalar(secret), KeyLen)

\* PublicKey::from_bytes: the bytes must decompress to a curve point
IsPoint(bytes) == Len(bytes) = KeyLen /\ LEValue(bytes) >= KeySpace - ScalarCount
PointScalar(bytes) == KeySpace - 1 - LEValue(bytes)

\* message hash, free of collisions on messages of at most KeyLen bytes
RECURSIVE Digest(_)
Digest(msg) ==
    IF msg = <<>> THEN 0 ELSE ((msg[1] + 1) + ByteRadix * Digest(Tail(msg))) % KeySpace

ExpectedSignature(scalar, public, msg) ==
    LET h == (Digest(msg) + LEValue(public)) % KeySpace
    IN  ToLE(h, KeyLen) \o ToLE((scalar + h) % ScalarCount, KeyLen)

\* Keypair::new (entropy is the operating system's random draw), to_bytes,
\* from_bytes (length, then the public half must be a point), pubkey, sign
KeypairNew(entropy) == [secret |-> entropy, public |-> PublicOf(entropy)]
KeypairToBytes(kp) == kp.secret \o kp.public
KeypairFromBytes(bytes) ==
    IF Len(bytes) # 2 * KeyLen THEN None
    ELSE IF ~IsPoint(SubSeq(bytes, KeyLen + 1, 2 * KeyLen)) THEN None
    ELSE Some([secret |-> SubSeq(bytes, 1, KeyLen), public |-> SubSeq(bytes, KeyLen + 1, 2 * KeyLen)])
KeypairSign(kp, msg) == ExpectedSignature(SecretScalar(kp.secret), kp.public, msg)

\* ed25519_dalek::Signature::from_bytes: 2*KeyLen bytes, high part of the
\* last byte clear (the scalar half is below the group order's bit length;
\* releases of the ed25519 crate before 1.3 check the length only)
SignatureFromBytes(bytes) ==
    IF Len(bytes) # 2 * KeyLen THEN None
    ELSE IF bytes[2 * KeyLen] >= HighLimit THEN None
    ELSE Some(bytes)

\* ed25519_dalek::PublicKey::from_bytes and verify_strict(..).is_ok()
DalekPublicKeyFromBytes(bytes) == IF IsPoint(bytes) THEN Some(bytes) ELSE None
\* faulty variant: a verification that checks the scalar half of the signature only
VerifyStrict_ScalarOnly(public, msg, signature) ==
    SubSeq(signature, KeyLen + 1, 2 * KeyLen)
        = SubSeq(ExpectedSignature(PointScalar(public), public, msg), KeyLen + 1, 2 * KeyLen)

VerifyStrict(public, msg, signature) ==
    signature = ExpectedSignature(PointScalar(public), public, msg)

\* ------------------------------------------------------------ instructions
SystemProgramId == Repeat(0, KeyLen)
TokenProgramId == [i \in 1..KeyLen |-> IF i = 1 THEN 6 ELSE ByteRadix - 1]
RentSysvarId == [i \in 1..KeyLen |-> IF i = 1 THEN 6 ELSE 1]

Meta(key, signer, writable) == [pubkey |-> key, is_signer |-> signer, is_writable |-> writable]
Instruction(pid, accounts, data) == [program_id |-> pid, accounts |-> accounts, data |-> data]

\* the record of a primitive's invocation (what was passed to the SDK)
NoCall == [prim |-> "none", keys |-> <<>>, amount |-> 0, decimals |-> 0]
Call(prim, keys, amount, decimals) ==
    [prim |-> prim, keys |-> keys, amount |-> amount, decimals |-> decimals]

\* spl_token::check_program_account
CheckProgramAccount(pid) == pid = TokenProgramId

\* spl_token::instruction::initialize_mint with no freeze authority
InitializeMint(pid, mint, authority, decimals) ==
    IF ~CheckProgramAccount(pid) THEN None
    ELSE Some(Instruction(pid,
                          <<Meta(mint, FALSE, TRUE), Meta(RentSysvarId, FALSE, FALSE)>>,
                          <<0, decimals>> \o authority \o <<0>>))

\* spl_token::instruction::mint_to with no multisig signers
MintTo(pid, mint, account, owner, amount) ==
    IF ~CheckProgramAccount(pid) THEN None
    ELSE Some(Instruction(pid,
                          <<Meta(mint, FALSE, TRUE), Meta(account, FALSE, TRUE), Meta(owner, TRUE, FALSE)>>,
                          <<7>> \o ToLE(amount, U64Len)))

\* spl_token::instruction::transfer_checked with no multisig signers
TransferChecked(pid, source, mint, destination, authority, amount, decimals) ==
    IF ~CheckProgramAccount(pid) THEN None
    ELSE Some(Instruction(pid,
                          <<Meta(source, FALSE, TRUE), Meta(mint, FALSE, FALSE),
                            Meta(destination, FALSE, TRUE), Meta(authority, TRUE, FALSE)>>,
                          <<12>> \o ToLE(amount, U64Len) \o <<decimals>>))

\* solana_sdk::system_instruction::transfer (cannot fail)
SystemTransfer(from, to, lamports) ==
    Instruction(SystemProgramId,
                <<Meta(from, TRUE, TRUE), Meta(to, FALSE, TRUE)>>,
                <<2>> \o ToLE(lamports, U64Len))

\* --------------------------------------------------------------- responses
SuccessResponse(data) ==
    [status |-> 200, body |-> "success_data", data |-> data, error |-> ""]
ErrorResponse(msg) ==
    [status |-> 400, body |-> "success_error", data |-> NoData, error |-> msg]

Done(resp, call) == [resp |-> resp, call |-> call]
Fail(msg) == Done(ErrorResponse(msg), NoCall)

\* ---------------------------------------------------------------- handlers
\* Each handler maps its decoded request to the response it returns and the
\* primitive invocation it made on the way (NoCall when it returned before).

AccountMetaResponse(meta) ==
    [pubkey |-> PubkeyToString(meta.pubkey), is_signer |-> meta.is_signer,
     is_writable |-> meta.is_writable]
AccountMetaSimple(meta) ==
    [pubkey |-> PubkeyToString(meta.pubkey), isSigner |-> meta.is_signer]

InstructionResponse(instruction, accounts) ==
    [program_id |-> PubkeyToString(instruction.program_id),
     accounts |-> accounts,
     instruction_data |-> Base64Encode(instruction.data)]

\* HashMap::get on the query parameters (a set of <<key, value>> pairs)
Get(params, key) ==
    IF \E kv \in params : kv[1] = key
    THEN Some((CHOOSE kv \in params : kv[1] = key)[2])
    ELSE [ok |-> FALSE, val |-> ""]

\* faulty variant: the secret returned is the seed alone, not the whole key pair
generate_keypair_SeedOnly(params, entropy) ==
    LET f == Get(params, "fail")
    IN  IF f.ok /\ f.val = "true" THEN Fail("Simulated failure via query param")
        ELSE LET keypair == KeypairNew(entropy)
             IN  Done(SuccessResponse([pubkey |-> PubkeyToString(keypair.public),
                                       secret |-> Base58Encode(keypair.secret)]),
                      Call("keypair_new", <<>>, 0, 0))

\* faulty variant: any value of the fail parameter simulates the failure
generate_keypair_AnyFail(params, entropy) ==
    LET f == Get(params, "fail")
    IN  IF f.ok THEN Fail("Simulated failure via query param")
        ELSE LET keypair == KeypairNew(entropy)
             IN  Done(SuccessResponse([pubkey |-> PubkeyToString(keypair.public),
                                       secret |-> Base58Encode(KeypairToBytes(keypair))]),
                      Call("keypair_new", <<>>, 0, 0))

generate_keypair(params, entropy) ==
    LET f == Get(params, "fail")
    IN  IF f.ok /\ f.val = "true" THEN Fail("Simulated failure via query param")
        ELSE LET keypair == KeypairNew(entropy)
                 pubkey == PubkeyToString(keypair.public)
                 secret == Base58Encode(KeypairToBytes(keypair))
             IN  Done(SuccessResponse([pubkey |-> pubkey, secret |-> secret]),
                      Call("keypair_new", <<>>, 0, 0))

create_token(req) ==
    LET mint_pubkey == PubkeyFromStr(req.mint)
        mint_authority == PubkeyFromStr(req.mintAuthority)
    IN  IF ~mint_pubkey.ok THEN Fail("Invalid mint pubkey")
        ELSE IF ~mint_authority.ok THEN Fail("Invalid mint authority pubkey")
        ELSE LET instruction == InitializeMint(TokenProgramId, mint_pubkey.val,
                                               mint_authority.val, req.decimals)
                 call == Call("initialize_mint", <<mint_pubkey.val, mint_authority.val>>,
                              0, req.decimals)
             IN  IF ~instruction.ok
                 THEN Done(ErrorResponse("Failed to create instruction: incorrect program id"), call)
                 ELSE Done(SuccessResponse(InstructionResponse(instruction.val,
                              [i \in 1..Len(instruction.val.accounts) |->
                                  AccountMetaResponse(instruction.val.accounts[i])])), call)

\* faulty variant: an authority that does not decode is replaced by the default key
mint_token_LenientAuthority(req) ==
    LET mint == PubkeyFromStr(req.mint)
        destination == PubkeyFromStr(req.destination)
        decoded == PubkeyFromStr(req.authority)
        authority == IF decoded.ok THEN decoded ELSE Some(Repeat(0, KeyLen))
    IN  IF ~mint.ok THEN Fail("Invalid mint address")
        ELSE IF ~destination.ok THEN Fail("Invalid destination address")
        ELSE LET instruction == MintTo(TokenProgramId, mint.val, destination.val,
                                       authority.val, req.amount)
             IN  Done(SuccessResponse(InstructionResponse(instruction.val,
                         [i \in 1..Len(instruction.val.accounts) |->
                             AccountMetaResponse(instruction.val.accounts[i])])),
                      Call("mint_to", <<mint.val, destination.val, authority.val>>, req.amount, 0))

\* faulty variant: the amount minted is stamped with the number of requests answered
mint_token_Stamped(req) ==
    LET mint == PubkeyFromStr(req.mint)
        destination == PubkeyFromStr(req.destination)
        authority == PubkeyFromStr(req.authority)
        amount == req.amount + Len(answered)
    IN  IF ~mint.ok THEN Fail("Invalid mint address")
        ELSE IF ~destination.ok THEN Fail("Invalid destination address")
        ELSE IF ~authority.ok THEN Fail("Invalid authority address")
        ELSE LET instruction == MintTo(TokenProgramId, mint.val, destination.val,
                                       authority.val, amount)
             IN  Done(SuccessResponse(InstructionResponse(instruction.val,
                         [i \in 1..Len(instruction.val.accounts) |->
                             AccountMetaResponse(instruction.val.accounts[i])])),
                      Call("mint_to", <<mint.val, destination.val, authority.val>>, amount, 0))

mint_token(req) ==
    LET mint == PubkeyFromStr(req.mint)
        destination == PubkeyFromStr(req.destination)
        authority == PubkeyFromStr(req.authority)
    IN  IF ~mint.ok THEN Fail("Invalid mint address")
        ELSE IF ~destination.ok THEN Fail("Invalid destination address")
        ELSE IF ~authority.ok THEN Fail("Invalid authority address")
        ELSE LET instruction == MintTo(TokenProgramId, mint.val, destination.val,
                                       authority.val, req.amount)
                 call == Call("mint_to", <<mint.val, destination.val, authority.val>>,
                              req.amount, 0)
             IN  IF ~instruction.ok
                 THEN Done(ErrorResponse("Failed to create instruction: incorrect program id"), call)
                 ELSE Done(SuccessResponse(InstructionResponse(instruction.val,
                              [i \in 1..Len(instruction.val.accounts) |->
                                  AccountMetaResponse(instruction.val.accounts[i])])), call)

\* faulty variant: the signature is returned in base 58
sign_message_Base58Signature(req) ==
    LET secret_bytes == Base58Decode(req.secret)
    IN  IF ~secret_bytes.ok THEN Fail("Invalid base58 secret key")
        ELSE LET keypair == KeypairFromBytes(secret_bytes.val)
             IN  IF ~keypair.ok THEN Fail("Failed to deserialize secret key")
                 ELSE LET signature == KeypairSign(keypair.val, req.message)
                      IN  Done(SuccessResponse([signature |-> Base58Encode(signature),
                                                public_key |-> PubkeyToString(keypair.val.public),
                                                message |-> req.message]),
                               Call("sign_message", <<keypair.val.secret, keypair.val.public>>, 0, 0))

sign_message(req) ==
    LET secret_bytes == Base58Decode(req.secret)
    IN  IF ~secret_bytes.ok THEN Fail("Invalid base58 secret key")
        ELSE LET keypair == KeypairFromBytes(secret_bytes.val)
             IN  IF ~keypair.ok THEN Fail("Failed to deserialize secret key")
                 ELSE LET signature == KeypairSign(keypair.val, req.message)
                      IN  Done(SuccessResponse([signature |-> Base64Encode(signature),
                                                public_key |-> PubkeyToString(keypair.val.public),
                                                message |-> req.message]),
                               Call("sign_message", <<keypair.val.secret, keypair.val.public>>, 0, 0))

\* faulty variant: the signature is decoded before the pubkey
verify_message_SignatureFirst(req) ==
    LET pubkey == PubkeyFromStr(req.pubkey)
        signature_bytes == Base64Decode(req.signature)
    IN  IF ~signature_bytes.ok THEN Fail("Invalid base64 signature")
        ELSE IF ~pubkey.ok THEN Fail("Invalid pubkey")
        ELSE LET signature == SignatureFromBytes(signature_bytes.val)
                 dalek_pubkey == DalekPublicKeyFromBytes(pubkey.val)
             IN  IF ~signature.ok THEN Fail("Invalid signature format")
                 ELSE IF ~dalek_pubkey.ok THEN Fail("Invalid public key format")
                 ELSE LET valid == signature.val
                                     = ExpectedSignature(PointScalar(dalek_pubkey.val),
                                                         dalek_pubkey.val, req.message)
                      IN  Done(SuccessResponse([valid |-> valid, message |-> req.message,
                                                pubkey |-> req.pubkey]),
                               Call("verify_strict", <<dalek_pubkey.val, signature.val>>, 0, 0))

verify_message(req) ==
    LET pubkey == PubkeyFromStr(req.pubkey)
        signature_bytes == Base64Decode(req.signature)
    IN  IF ~pubkey.ok THEN Fail("Invalid pubkey")
        ELSE IF ~signature_bytes.ok THEN Fail("Invalid base64 signature")
        ELSE LET signature == SignatureFromBytes(signature_bytes.val)
                 dalek_pubkey == DalekPublicKeyFromBytes(pubkey.val)
             IN  IF ~signature.ok THEN Fail("Invalid signature format")
                 ELSE IF ~dalek_pubkey.ok THEN Fail("Invalid public key format")
                 ELSE LET valid == VerifyStrict(dalek_pubkey.val, req.message, signature.val)
                      IN  Done(SuccessResponse([valid |-> valid, message |-> req.message,
                                                pubkey |-> req.pubkey]),
                               Call("verify_strict", <<dalek_pubkey.val, signature.val>>, 0, 0))

\* faulty variant: a transfer is refused while another request is in flight
send_sol_Busy(req) ==
    LET from_pubkey == PubkeyFromStr(req.from)
        to_pubkey == PubkeyFromStr(req.to)
    IN  IF Cardinality({c \in 1..MaxConn : conn[c][1] # ""}) > 1 THEN Fail("Server busy")
        ELSE IF ~from_pubkey.ok THEN Fail("Invalid 'from' address")
        ELSE IF ~to_pubkey.ok THEN Fail("Invalid 'to' address")
        ELSE LET instruction == SystemTransfer(from_pubkey.val, to_pubkey.val, req.lamports)
             IN  Done(SuccessResponse(InstructionResponse(instruction,
                         [i \in 1..Len(instruction.accounts) |->
                             PubkeyToString(instruction.accounts[i].pubkey)])),
                      Call("transfer", <<from_pubkey.val, to_pubkey.val>>, req.lamports, 0))

send_sol(req) ==
    LET from_pubkey == PubkeyFromStr(req.from)
        to_pubkey == PubkeyFromStr(req.to)
    IN  IF ~from_pubkey.ok THEN Fail("Invalid 'from' address")
        ELSE IF ~to_pubkey.ok THEN Fail("Invalid 'to' address")
        ELSE LET instruction == SystemTransfer(from_pubkey.val, to_pubkey.val, req.lamports)
             IN  Done(SuccessResponse(InstructionResponse(instruction,
                         [i \in 1..Len(instruction.accounts) |->
                             PubkeyToString(instruction.accounts[i].pubkey)])),
                      Call("transfer", <<from_pubkey.val, to_pubkey.val>>, req.lamports, 0))

\* faulty variant: the source account is taken from the owner field
send_token_SourceFromOwner(req) ==
    LET destination == PubkeyFromStr(req.destination)
        mint == PubkeyFromStr(req.mint)
        owner == PubkeyFromStr(req.owner)
        source == PubkeyFromStr(req.owner)
    IN  IF ~destination.ok THEN Fail("Invalid destination address")
        ELSE IF ~mint.ok THEN Fail("Invalid mint address")
        ELSE IF ~owner.ok THEN Fail("Invalid owner address")
        ELSE IF ~source.ok THEN Fail("Invalid source token address")
        ELSE LET instruction == TransferChecked(TokenProgramId, source.val, mint.val,
                                                destination.val, owner.val, req.amount, 6)
             IN  Done(SuccessResponse(InstructionResponse(instruction.val,
                         [i \in 1..Len(instruction.val.accounts) |->
                             AccountMetaSimple(instruction.val.accounts[i])])),
                      Call("transfer_checked",
                           <<source.val, mint.val, destination.val, owner.val>>, req.amount, 6))

send_token(req) ==
    LET destination == PubkeyFromStr(req.destination)
        mint == PubkeyFromStr(req.mint)
        owner == PubkeyFromStr(req.owner)
        source == PubkeyFromStr(req.destination)
    IN  IF ~destination.ok THEN Fail("Invalid destination address")
        ELSE IF ~mint.ok THEN Fail("Invalid mint address")
        ELSE IF ~owner.ok THEN Fail("Invalid owner address")
        ELSE IF ~source.ok THEN Fail("Invalid source token address")
        ELSE LET instruction == TransferChecked(TokenProgramId, source.val, mint.val,
                                                destination.val, owner.val, req.amount, 6)
                 call == Call("transfer_checked",
                              <<source.val, mint.val, destination.val, owner.val>>,
                              req.amount, 6)
             IN  IF ~instruction.ok
                 THEN Done(ErrorResponse("Instruction error: incorrect program id"), call)
                 ELSE Done(SuccessResponse(InstructionResponse(instruction.val,
                              [i \in 1..Len(instruction.val.accounts) |->
                                  AccountMetaSimple(instruction.val.accounts[i])])), call)

\* The Json<T> extractor in front of the six body-taking handlers: a body
\* that is not the expected JSON never reaches the handler; the framework's
\* rejection is answered instead, as plain text (axum 0.6: 415 without a JSON
\* content type, 400 for a syntax error, 422 for JSON of another shape).
JsonRejection(kind) ==
    [status |-> CASE kind = "missing_content_type" -> 415
                  [] kind = "syntax_error" -> 400
                  [] OTHER -> 422,
     body |-> "plain_text", data |-> NoData, error |-> kind]

\* the router of main: the handler of each route
Route(ep, req) ==
    CASE ep = "/token/create" -> create_token(req)
      [] ep = "/token/mint" -> mint_token(req)
      [] ep = "/message/sign" -> sign_message(req)
      [] ep = "/message/verify" -> verify_message(req)
      [] ep = "/send/sol" -> send_sol(req)
      [] ep = "/send/token" -> send_token(req)

\* ------------------------------------------------------------------ inputs
SampleSeeds == [1..KeyLen -> {0, ByteRadix - 1}]
Messages == UNION {[1..n -> 0..MaxMsgByte] : n \in 0..MaxMsgLen}
Amounts == {0, 1, Pow(ByteRadix, U64Len) - 1}
Decimals == {0, 6, ByteRadix - 1}

\* a symbol of neither alphabet
BadSymbol == ByteRadix + B58Radix

SampleKeys == {SystemProgramId, TokenProgramId, Repeat(ByteRadix - 1, KeyLen)}
BadAddressTexts ==
    {<<>>, <<1>>, <<1, BadSymbol>>, Repeat(1, MAX_BASE58_LEN + 1)}
AddressTexts == {PubkeyToString(k) : k \in SampleKeys} \cup BadAddressTexts

SecretTexts ==
    {Base58Encode(KeypairToBytes(KeypairNew(s))) : s \in SampleSeeds}
    \cup {<<BadSymbol>>,
          Base58Encode(<<1>>),
          Base58Encode(Repeat(1, KeyLen) \o SystemProgramId),
          Base58Encode(Repeat(1, KeyLen) \o PublicOf(Repeat(0, KeyLen)))}

PointTexts == {PubkeyToString(PublicOf(s)) : s \in SampleSeeds}
ShortMessages == {m \in Messages : Len(m) <= 1}
SignatureTexts ==
    {Base64Encode(KeypairSign(KeypairNew(s), m)) : s \in SampleSeeds, m \in ShortMessages}
    \cup {<<BadSymbol>>, <<0>>, Base64Encode(<<1>>),
          Base64Encode(Repeat(ByteRadix - 1, 2 * KeyLen))}

Queries ==
    {{}, {<<"fail", "true">>}, {<<"fail", "false">>}, {<<"fail", "TRUE">>},
     {<<"fail", "">>}, {<<"other", "true">>}, {<<"fail", "true">>, <<"other", "x">>}}

CreateTokenRequests ==
    [mintAuthority : AddressTexts, mint : AddressTexts, decimals : Decimals]
MintTokenRequests ==
    [mint : AddressTexts, destination : AddressTexts, authority : AddressTexts, amount : Amounts]
SignMessageRequests == [message : Messages, secret : SecretTexts]
VerifyMessageRequests ==
    [message : Messages, signature : SignatureTexts, pubkey : AddressTexts \cup PointTexts]
SendSolRequests == [from : AddressTexts, to : AddressTexts, lamports : Amounts]
SendTokenRequests ==
    [destination : AddressTexts, mint : AddressTexts, owner : AddressTexts, amount : Amounts]

JsonEndpoints ==
    {"/token/create", "/token/mint", "/message/sign", "/message/verify", "/send/sol", "/send/token"}
RejectKinds == {"missing_content_type", "syntax_error", "data_error"}

\* ----------------------------------------------------------- state machine
\* One request served: extraction, then the route's handler.  entropy is the
\* random draw the handler would get from the operating system.
Serve(ep, body, entropy) ==
    IF ep = "/keypair" THEN generate_keypair(body.val.params, entropy)
    ELSE IF body.kind # "json" THEN Done(JsonRejection(body.kind), NoCall)
    ELSE Route(ep, body.val)

Exchange(ep, body, out) == [ep |-> ep, body |-> body, resp |-> out.resp, call |-> out.call]

Idle == <<"", NoData>>

\* main: the router is built and the listener bound; nothing else is kept
Init ==
    /\ answered = <<>>
    /\ conn = [c \in 1..MaxConn |-> Idle]
    /\ listening = TRUE

\* a request on an otherwise idle server, answered at once
Ready == listening /\ answered = <<>>

Post(ep, body, entropy) ==
    /\ answered' = <<Exchange(ep, body, Serve(ep, body, entropy))>>
    /\ UNCHANGED <<conn, listening>>

\* the client has read the response; the exchange leaves no trace
Collect ==
    /\ answered # <<>>
    /\ answered' = <<>>
    /\ UNCHANGED <<conn, listening>>

Keypair == Ready /\ \E params \in Queries, entropy \in SampleSeeds : Post("/keypair", Query(params), entropy)
CreateToken == Ready /\ \E req \in CreateTokenRequests : Post("/token/create", WellFormed(req), <<>>)
MintToken == Ready /\ \E req \in MintTokenRequests : Post("/token/mint", WellFormed(req), <<>>)
SignMessage == Ready /\ \E req \in SignMessageRequests : Post("/message/sign", WellFormed(req), <<>>)
VerifyMessage == Ready /\ \E req \in VerifyMessageRequests : Post("/message/verify", WellFormed(req), <<>>)
SendSol == Ready /\ \E req \in SendSolRequests : Post("/send/sol", WellFormed(req), <<>>)
SendToken == Ready /\ \E req \in SendTokenRequests : Post("/send/token", WellFormed(req), <<>>)
Rejected == Ready /\ \E ep \in JsonEndpoints, kind \in RejectKinds : Post(ep, Malformed(kind), <<>>)

Next ==
    \/ Keypair
    \/ CreateToken
    \/ MintToken
    \/ SignMessage
    \/ VerifyMessage
    \/ SendSol
    \/ SendToken
    \/ Rejected
    \/ Collect

Spec == Init /\ [][Next]_vars

\* ------------------------------------------------ a client's signing session
\* The client asks for a key pair, signs a message with the secret it got,
\* and has the signature verified, either as received or with one byte of
\* the message, of the signature or of the public key changed.
Genuine ==
    [message |-> answered[2].resp.data.message,
     signature |-> answered[2].resp.data.signature,
     pubkey |-> answered[1].resp.data.pubkey]

SetByte(bytes, pos, b) == [i \in 1..Len(bytes) |-> IF i = pos THEN b ELSE bytes[i]]

FieldBytes(triple, field) ==
    CASE field = "message" -> triple.message
      [] field = "signature" -> Base64Decode(triple.signature).val
      [] field = "pubkey" -> Base58Decode(triple.pubkey).val

Tamperings(triple) ==
    {[field |-> "none", pos |-> 0, byte |-> 0]}
    \cup {t \in [field : {"message", "signature", "pubkey"}, pos : 1..(2 * KeyLen), byte : Bytes] :
            /\ t.pos <= Len(FieldBytes(triple, t.field))
            /\ t.byte # FieldBytes(triple, t.field)[t.pos]}

Tampered(triple, t) ==
    CASE t.field = "none" -> triple
      [] t.field = "message" ->
            [triple EXCEPT !.message = SetByte(@, t.pos, t.byte)]
      [] t.field = "signature" ->
            [triple EXCEPT !.signature = Base64Encode(SetByte(Base64Decode(@).val, t.pos, t.byte))]
      [] t.field = "pubkey" ->
            [triple EXCEPT !.pubkey = PubkeyToString(SetByte(Base58Decode(@).val, t.pos, t.byte))]

Follow(ep, body) ==
    /\ answered' = Append(answered, Exchange(ep, body, Serve(ep, body, <<>>)))
    /\ UNCHANGED <<conn, listening>>

ThenSign ==
    /\ Len(answered) = 1
    /\ answered[1].ep = "/keypair"
    /\ answered[1].resp.status = 200
    /\ \E msg \in Messages :
          Follow("/message/sign",
                 WellFormed([message |-> msg, secret |-> answered[1].resp.data.secret]))

ThenVerify ==
    /\ Len(answered) = 2
    /\ answered[2].ep = "/message/sign"
    /\ answered[2].resp.status = 200
    /\ \E t \in Tamperings(Genuine) :
          Follow("/message/verify", WellFormed(Tampered(Genuine, t)))

NextSession ==
    \/ Keypair
    \/ ThenSign
    \/ ThenVerify

SpecSession == Init /\ [][NextSession]_vars

\* ------------------------------------------------------ concurrent requests
\* Each connection carries at most one request; requests are accepted and
\* answered in any order.  answered keeps the two latest exchanges.
AddrA == PubkeyToString(TokenProgramId)
AddrZ == PubkeyToString(SystemProgramId)
AddrBad == <<1, BadSymbol>>
SeedZ == Repeat(0, KeyLen)
SeedM == Repeat(ByteRadix - 1, KeyLen)

ConcurrentRequests ==
    {Arrival("/keypair", Query({})),
     Arrival("/keypair", Query({<<"fail", "true">>})),
     Arrival("/token/create", WellFormed([mintAuthority |-> AddrA, mint |-> AddrZ, decimals |-> 6])),
     Arrival("/token/mint", WellFormed([mint |-> AddrA, destination |-> AddrZ, authority |-> AddrA, amount |-> 1])),
     Arrival("/token/mint", WellFormed([mint |-> AddrBad, destination |-> AddrZ, authority |-> AddrA, amount |-> 1])),
     Arrival("/token/mint", Malformed("data_error")),
     Arrival("/message/sign", WellFormed([message |-> <<1>>,
                                          secret |-> Base58Encode(KeypairToBytes(KeypairNew(SeedZ)))])),
     Arrival("/message/verify", WellFormed([message |-> <<1>>,
                                            signature |-> Base64Encode(KeypairSign(KeypairNew(SeedZ), <<1>>)),
                                            pubkey |-> PubkeyToString(PublicOf(SeedZ))])),
     Arrival("/send/sol", WellFormed([from |-> AddrZ, to |-> AddrZ, lamports |-> 1])),
     Arrival("/send/token", WellFormed([destination |-> AddrZ, mint |-> AddrA, owner |-> AddrA, amount |-> 1]))}

LatestTwo(h) == IF Len(h) > 2 THEN SubSeq(h, Len(h) - 1, Len(h)) ELSE h

Accept(c) ==
    /\ listening
    /\ conn[c][1] = ""
    /\ \E r \in ConcurrentRequests : conn' = [conn EXCEPT ![c] = r]
    /\ UNCHANGED <<answered, listening>>

Respond(c) ==
    /\ conn[c][1] # ""
    /\ \E entropy \in (IF conn[c][1] = "/keypair" THEN {SeedZ, SeedM} ELSE {<<>>}) :
          answered' = LatestTwo(Append(answered,
                          Exchange(conn[c][1], conn[c][2], Serve(conn[c][1], conn[c][2], entropy))))
    /\ conn' = [conn EXCEPT ![c] = Idle]
    /\ UNCHANGED listening

NextConcurrent ==
    \/ \E c \in 1..MaxConn : Accept(c)
    \/ \E c \in 1..MaxConn : Respond(c)

SpecConcurrent == Init /\ [][NextConcurrent]_vars

\* ------------------------------------------------------------------ claims
IsJsonCall(x) == x.ep \in JsonEndpoints /\ x.body.kind = "json"

\* C1: every failing request is answered 400 with {success:false, error},
\* every other request 200 with {success:true, data}; no other status or
\* body shape is ever sent.
C1_UniformEnvelope ==
    \A i \in 1..Len(answered) :
        LET r == answered[i].resp
        IN  \/ r.status = 400 /\ r.body = "success_error"
            \/ r.status = 200 /\ r.body = "success_data"

\* whether every address, key and signature field of a request decodes
FieldsDecode(ep, req) ==
    CASE ep = "/token/create" ->
            PubkeyFromStr(req.mint).ok /\ PubkeyFromStr(req.mintAuthority).ok
      [] ep = "/token/mint" ->
            /\ PubkeyFromStr(req.mint).ok
            /\ PubkeyFromStr(req.destination).ok
            /\ PubkeyFromStr(req.authority).ok
      [] ep = "/message/sign" ->
            Base58Decode(req.secret).ok /\ KeypairFromBytes(Base58Decode(req.secret).val).ok
      [] ep = "/message/verify" ->
            /\ PubkeyFromStr(req.pubkey).ok
            /\ Base64Decode(req.signature).ok
            /\ SignatureFromBytes(Base64Decode(req.signature).val).ok
            /\ DalekPublicKeyFromBytes(PubkeyFromStr(req.pubkey).val).ok
      [] ep = "/send/sol" ->
            PubkeyFromStr(req.from).ok /\ PubkeyFromStr(req.to).ok
      [] ep = "/send/token" ->
            /\ PubkeyFromStr(req.destination).ok
            /\ PubkeyFromStr(req.mint).ok
            /\ PubkeyFromStr(req.owner).ok

\* C2: the primitive is invoked only if every address, key and signature
\* field decoded; with any field invalid it is not invoked and the response
\* carries no data.
C2_PrimitiveOnlyAfterDecoding ==
    \A i \in 1..Len(answered) :
        LET x == answered[i]
        IN  IsJsonCall(x) =>
              /\ x.call # NoCall => FieldsDecode(x.ep, x.body.val)
              /\ ~FieldsDecode(x.ep, x.body.val) =>
                    /\ x.call = NoCall
                    /\ x.resp.body = "success_error"
                    /\ x.resp.data = NoData

C2_Witness ==
    \E i \in 1..Len(answered) :
        LET x == answered[i]
        IN  /\ x.ep = "/token/mint"
            /\ x.body.kind = "json"
            /\ PubkeyFromStr(x.body.val.mint).ok
            /\ PubkeyFromStr(x.body.val.destination).ok
            /\ ~PubkeyFromStr(x.body.val.authority).ok
            /\ x.call = NoCall
            /\ x.resp.status = 400

\* C6: generate_keypair answers the simulated failure, and generates no key
\* pair, exactly when the query has fail=true; otherwise it answers 200 with
\* a key pair.
C6_SimulatedFailure ==
    \A i \in 1..Len(answered) :
        LET x == answered[i]
        IN  x.ep = "/keypair" =>
              IF <<"fail", "true">> \in x.body.val.params
              THEN /\ x.resp = ErrorResponse("Simulated failure via query param")
                   /\ x.call = NoCall
              ELSE /\ x.resp.status = 200
                   /\ x.resp.body = "success_data"
                   /\ x.call.prim = "keypair_new"
                   /\ Len(x.resp.data.pubkey) > 0
                   /\ Len(x.resp.data.secret) > 0

C6_Witness ==
    \E i \in 1..Len(answered) :
        /\ answered[i].ep = "/keypair"
        /\ <<"fail", "true">> \in answered[i].body.val.params
        /\ <<"other", "x">> \in answered[i].body.val.params
        /\ answered[i].resp.status = 400

Check(ok, msg) == [ok |-> ok, msg |-> msg]
Checks(ep, req) ==
    CASE ep = "/token/create" ->
            <<Check(PubkeyFromStr(req.mint).ok, "Invalid mint pubkey"),
              Check(PubkeyFromStr(req.mintAuthority).ok, "Invalid mint authority pubkey")>>
      [] ep = "/token/mint" ->
            <<Check(PubkeyFromStr(req.mint).ok, "Invalid mint address"),
              Check(PubkeyFromStr(req.destination).ok, "Invalid destination address"),
              Check(PubkeyFromStr(req.authority).ok, "Invalid authority address")>>
      [] ep = "/message/sign" ->
            <<Check(Base58Decode(req.secret).ok, "Invalid base58 secret key"),
              Check(KeypairFromBytes(Base58Decode(req.secret).val).ok, "Failed to deserialize secret key")>>
      [] ep = "/message/verify" ->
            <<Check(PubkeyFromStr(req.pubkey).ok, "Invalid pubkey"),
              Check(Base64Decode(req.signature).ok, "Invalid base64 signature"),
              Check(SignatureFromBytes(Base64Decode(req.signature).val).ok, "Invalid signature format")>>
      [] ep = "/send/sol" ->
            <<Check(PubkeyFromStr(req.from).ok, "Invalid 'from' address"),
              Check(PubkeyFromStr(req.to).ok, "Invalid 'to' address")>>
      [] ep = "/send/token" ->
            <<Check(PubkeyFromStr(req.destination).ok, "Invalid destination address"),
              Check(PubkeyFromStr(req.mint).ok, "Invalid mint address"),
              Check(PubkeyFromStr(req.owner).ok, "Invalid owner address")>>

FailedChecks(cs) == {k \in 1..Len(cs) : ~cs[k].ok}
FirstFailed(cs) == CHOOSE k \in FailedChecks(cs) : \A j \in FailedChecks(cs) : k <= j

\* C10: validation stops at the first invalid field in the handler's fixed
\* order and the error names that field, also when later fields are invalid;
\* send_token never answers "Invalid source token address".
C10_FailFastOrder ==
    \A i \in 1..Len(answered) :
        LET x == answered[i]
        IN  IsJsonCall(x) =>
              LET cs == Checks(x.ep, x.body.val)
              IN  /\ FailedChecks(cs) # {} =>
                        x.resp = ErrorResponse(cs[FirstFailed(cs)].msg)
                  /\ x.resp.error # "Invalid source token address"

C10_Witness ==
    \E i \in 1..Len(answered) :
        LET x == answered[i]
        IN  /\ x.ep = "/send/token"
            /\ x.body.kind = "json"
            /\ ~PubkeyFromStr(x.body.val.destination).ok
            /\ PubkeyFromStr(x.body.val.mint).ok
            /\ ~PubkeyFromStr(x.body.val.owner).ok
            /\ x.resp.error = "Invalid destination address"

\* ---------------------------------------------------- claims on a session
\* the field of the genuine triple that the verification request changed,
\* in exactly one byte: "none" when it is the genuine triple, "other" when
\* it is no single-byte change
DiffersInOneByte(a, b) ==
    /\ Len(a) = Len(b)
    /\ Cardinality({k \in 1..Len(a) : a[k] # b[k]}) = 1

MutatedField(g, r) ==
    IF r = g THEN "none"
    ELSE IF /\ r.signature = g.signature
            /\ r.pubkey = g.pubkey
            /\ DiffersInOneByte(r.message, g.message) THEN "message"
    ELSE IF /\ r.message = g.message
            /\ r.pubkey = g.pubkey
            /\ Base64Decode(r.signature).ok
            /\ DiffersInOneByte(Base64Decode(r.signature).val, Base64Decode(g.signature).val)
         THEN "signature"
    ELSE IF /\ r.message = g.message
            /\ r.signature = g.signature
            /\ Base58Decode(r.pubkey).ok
            /\ DiffersInOneByte(Base58Decode(r.pubkey).val, Base58Decode(g.pubkey).val)
         THEN "pubkey"
    ELSE "other"

Verified == Len(answered) = 3 /\ answered[3].ep = "/message/verify"
VerifiedField == MutatedField(Genuine, answered[3].body.val)
IsValid(resp, v) == resp.status = 200 /\ resp.body = "success_data" /\ resp.data.valid = v

\* C3: a message signed with the secret that generate_keypair returned
\* verifies under the pubkey it returned: 200 with valid = true.
C3_SignVerifyRoundTrip ==
    (Verified /\ VerifiedField = "none") => IsValid(answered[3].resp, TRUE)

C3_Witness ==
    /\ Verified
    /\ VerifiedField = "none"
    /\ Len(Genuine.message) = MaxMsgLen
    /\ IsValid(answered[3].resp, TRUE)

\* C4 as stated: any single-byte change of the message, of the signature
\* bytes or of the pubkey bytes is answered 200 with valid = false, never
\* with an error.
C4_TamperedNeverErrors ==
    (Verified /\ VerifiedField \in {"message", "signature", "pubkey"}) =>
        IsValid(answered[3].resp, FALSE)

\* C4 as amended: such a change never verifies; it is answered 200 with
\* valid = false, except that a changed signature may be answered 400
\* "Invalid signature format", and a changed pubkey that is no curve point
\* is answered 400 "Invalid public key format".
C4_TamperedNeverVerifies ==
    Verified =>
        LET r == answered[3].resp
            req == answered[3].body.val
        IN  /\ VerifiedField = "message" => IsValid(r, FALSE)
            /\ VerifiedField = "signature" =>
                  \/ IsValid(r, FALSE)
                  \/ r = ErrorResponse("Invalid signature format")
            /\ VerifiedField = "pubkey" =>
                  IF IsPoint(Base58Decode(req.pubkey).val)
                  THEN IsValid(r, FALSE)
                  ELSE r = ErrorResponse("Invalid public key format")

C4_Witness ==
    /\ Verified
    /\ VerifiedField = "pubkey"
    /\ ~IsPoint(Base58Decode(answered[3].body.val.pubkey).val)
    /\ answered[3].resp.status = 400

\* C5: the secret that generate_keypair returns decodes to a key pair of
\* 2*KeyLen bytes that sign_message accepts, whose public address, derived
\* from the secret half, is the returned pubkey; sign_message with that
\* secret reports that pubkey.
C5_KeypairRoundTrip ==
    /\ (Len(answered) >= 1 /\ answered[1].ep = "/keypair" /\ answered[1].resp.status = 200) =>
          LET data == answered[1].resp.data
              bytes == Base58Decode(data.secret)
              keypair == KeypairFromBytes(bytes.val)
          IN  /\ bytes.ok
              /\ Len(bytes.val) = 2 * KeyLen
              /\ keypair.ok
              /\ PubkeyToString(keypair.val.public) = data.pubkey
              /\ PubkeyToString(PublicOf(keypair.val.secret)) = data.pubkey
              /\ PubkeyFromStr(data.pubkey).ok
    /\ (Len(answered) >= 2 /\ answered[2].ep = "/message/sign") =>
          /\ answered[2].resp.status = 200
          /\ answered[2].resp.data.public_key = answered[1].resp.data.pubkey

C5_Witness ==
    /\ Len(answered) >= 2
    /\ answered[2].ep = "/message/sign"
    /\ answered[2].resp.status = 200
    /\ answered[1].resp.data.secret[1] = 0

\* --------------------------------------------- claims on concurrent requests
Builders == {"/token/create", "/token/mint", "/send/sol", "/send/token"}

====
